---- MODULE Spec2Model ----
(***************************************************************************)
(* Model of tree_design.py / tree_demo.py: a binary decision tree          *)
(* (DecisionNode / LeafNode), the TreeBuilder state machine                *)
(* (SplittingState, StoppingState, PruningState), the PreOrderIterator and *)
(* the CountLeavesVisitor.                                                 *)
(*                                                                         *)
(* Objects live in `heap`, a sequence of node records; a node is named by  *)
(* its index, allocation appends, and None is 0.  Nothing is ever freed:   *)
(* the program holds references to everything it builds.                   *)
(***************************************************************************)
EXTENDS Integers, Sequences, FiniteSets, TLC

\* ---------------------------------------------------------------- bounds
\* Size of what the caller builds by hand.  An object counts 2 and a
\* tree-breaking attachment (a node put in a second slot, or below itself)
\* counts 1; the caller constructs a node, or makes such an attachment, only
\* while the size stays within this.
MaxUserSize == 6
\* Size of the heap: no operation that would allocate beyond it is started.
MaxNodes == 5

\* ---------------------------------------------------------------- values
None == 0
\* An argument that is not an instance of Node (an int, a str, ...).
NonNode == -1

\* Python's recursion limit, scaled to the heap: a chain of _make_split
\* frames longer than the number of nodes only exists on a cyclic structure,
\* where Python raises RecursionError at its own (larger) limit.
RecursionLimit == MaxNodes + 1

\* The iterator of a cyclic structure never ends; yields are recorded up to
\* this length.
MaxYield == MaxNodes + 1

VARIABLES
    heap,        \* Seq of node records: the objects created so far
    builder,     \* the TreeBuilder: [root, state]
    trace,       \* calls made by the last builder operation, in order
    it,          \* the demo's PreOrderIterator: [live, root, stack]
    yielded,     \* nodes returned by __next__ of `it`, in order
    pending,     \* node returned by __next__ and not yet passed to accept
    leaf_visitor,\* the demo's CountLeavesVisitor: [leaf_count]
    err,         \* how the last operation ended: "ok" or the exception raised
    aliases      \* number of tree-breaking attachments made so far

vars == <<heap, builder, trace, it, yielded, pending, leaf_visitor, err,
          aliases>>

\* ---------------------------------------------------------------- errors
\* The exceptions the program raises, with their messages.
BothSet == "Exception: Both child nodes are already set."

LeftSet == "Exception: Left child is already set."

RightSet == "Exception: Right child is already set."

ChildNotNode == "ValueError: Child must be an instance of Node."

RootNotNode == "ValueError: Root must be an instance of Node."

\* ---------------------------------------------------------------- nodes
IsNode(h, x) == x \in 1..Len(h)

IsDecision(h, x) == IsNode(h, x) /\ h[x].type = "DecisionNode"

IsLeaf(h, x) == IsNode(h, x) /\ h[x].type = "LeafNode"

\* the nodes held in the child slots of `x`
Children(h, x) == {h[x].left_child, h[x].right_child} \ {None}

RECURSIVE Closure(_, _)
\* the nodes reachable from the set S through child slots, S included
Closure(h, S) ==
    LET T == S \cup UNION {Children(h, x) : x \in S}
    IN  IF T = S THEN S ELSE Closure(h, T)

Reach(h, x) == IF x = None THEN {} ELSE Closure(h, {x})

\* `c` already occupies a slot
Attached(h, c) == \E d \in 1..Len(h) : c \in Children(h, d)

\* putting `c` in a slot of `d` shares `c` or closes a cycle
Aliasing(h, d, c) == IsNode(h, c) /\ (Attached(h, c) \/ d \in Reach(h, c))

\* DecisionNode.__init__
DecisionNode(parent, left_child, right_child) ==
    [type |-> "DecisionNode", parent |-> parent,
     left_child |-> left_child, right_child |-> right_child, value |-> <<>>]

\* LeafNode.__init__ (a leaf has no child attributes: the slots stay None)
LeafNode(value, parent) ==
    [type |-> "LeafNode", parent |-> parent,
     left_child |-> None, right_child |-> None, value |-> value]

\* add_left_child without the test that the slot is free
add_left_child_overwriting(h, self, child) ==
    IF ~IsNode(h, child) THEN [heap |-> h, err |-> ChildNotNode]
    ELSE LET h1 == [h EXCEPT ![self].left_child = child]
         IN  [heap |-> [h1 EXCEPT ![child].parent = self], err |-> "ok"]

\* add_left_child testing the slot before the argument
add_left_child_slot_first(h, self, child) ==
    IF h[self].left_child # None THEN [heap |-> h, err |-> LeftSet]
    ELSE IF ~IsNode(h, child) THEN [heap |-> h, err |-> ChildNotNode]
    ELSE LET h1 == [h EXCEPT ![self].left_child = child]
         IN  [heap |-> [h1 EXCEPT ![child].parent = self], err |-> "ok"]

\* DecisionNode.add_left_child: [heap, err]
add_left_child(h, self, child) ==
    IF ~IsNode(h, child) THEN [heap |-> h, err |-> ChildNotNode]
    ELSE IF h[self].left_child # None THEN [heap |-> h, err |-> LeftSet]
    ELSE LET h1 == [h EXCEPT ![self].left_child = child]
         IN  [heap |-> [h1 EXCEPT ![child].parent = self], err |-> "ok"]

\* DecisionNode.add_right_child: [heap, err]
add_right_child(h, self, child) ==
    IF ~IsNode(h, child) THEN [heap |-> h, err |-> ChildNotNode]
    ELSE IF h[self].right_child # None THEN [heap |-> h, err |-> RightSet]
    ELSE LET h1 == [h EXCEPT ![self].right_child = child]
         IN  [heap |-> [h1 EXCEPT ![child].parent = self], err |-> "ok"]

\* add_child falling through to add_right_child's assignment when both
\* slots are taken
add_child_third(h, self, child) ==
    IF h[self].left_child = None THEN add_left_child(h, self, child)
    ELSE IF h[self].right_child = None THEN add_right_child(h, self, child)
    ELSE IF ~IsNode(h, child) THEN [heap |-> h, err |-> ChildNotNode]
    ELSE LET h1 == [h EXCEPT ![self].right_child = child]
         IN  [heap |-> [h1 EXCEPT ![child].parent = self], err |-> "ok"]

\* DecisionNode.add_child: [heap, err].  `not self.left_child` is the
\* truth value of the slot: None is false, a node object is true.
add_child(h, self, child) ==
    IF h[self].left_child = None THEN add_left_child(h, self, child)
    ELSE IF h[self].right_child = None THEN add_right_child(h, self, child)
    ELSE [heap |-> h, err |-> BothSet]

\* ---------------------------------------------------------------- labels
DigitChar(d) == <<"0", "1", "2", "3", "4", "5", "6", "7", "8", "9">>[d + 1]

RECURSIVE Decimal(_)
\* str(n) for n >= 0, as a sequence of characters
Decimal(n) ==
    IF n < 10 THEN <<DigitChar(n)>>
    ELSE Decimal(n \div 10) \o <<DigitChar(n % 10)>>

\* the label cut to two characters: f"{n:02d}"[-2:]
Format02d_two_chars(n) ==
    LET s == Decimal(n)
    IN  IF Len(s) < 2 THEN <<"0">> \o s ELSE SubSeq(s, Len(s) - 1, Len(s))

\* f"{n:02d}": the decimal digits, zero-filled on the left to width 2
Format02d(n) ==
    LET s == Decimal(n) IN IF Len(s) < 2 THEN <<"0">> \o s ELSE s

\* ---------------------------------------------------------------- states
NoState == [name |-> "None", new_leaf_count |-> 0]

\* SplittingState.__init__
SplittingState == [name |-> "SplittingState", new_leaf_count |-> 0]

StoppingState == [name |-> "StoppingState", new_leaf_count |-> 0]

PruningState == [name |-> "PruningState", new_leaf_count |-> 0]

\* _make_split without the recursive calls: only the node's own slots are filled
make_split_flat(h, cnt, node, depth) ==
    IF ~IsDecision(h, node) THEN [heap |-> h, cnt |-> cnt, err |-> "ok"]
    ELSE
      LET l == IF h[node].left_child = None
               THEN [heap |-> Append([h EXCEPT ![node].left_child = Len(h) + 1],
                                     LeafNode(Format02d(cnt + 1), node)),
                     cnt |-> cnt + 1]
               ELSE [heap |-> h, cnt |-> cnt]
      IN  IF l.heap[node].right_child = None
          THEN [heap |-> Append([l.heap EXCEPT ![node].right_child = Len(l.heap) + 1],
                                LeafNode(Format02d(l.cnt + 1), node)),
                cnt |-> l.cnt + 1, err |-> "ok"]
          ELSE [heap |-> l.heap, cnt |-> l.cnt, err |-> "ok"]

\* _make_split giving every decision node a new left leaf, taken or not
make_split_left_anew(h, cnt, node, depth) ==
    IF ~IsDecision(h, node) THEN [heap |-> h, cnt |-> cnt, err |-> "ok"]
    ELSE
      LET l == [heap |-> Append([h EXCEPT ![node].left_child = Len(h) + 1],
                                LeafNode(Format02d(cnt + 1), node)),
                cnt |-> cnt + 1]
      IN  IF l.heap[node].right_child = None
          THEN [heap |-> Append([l.heap EXCEPT ![node].right_child = Len(l.heap) + 1],
                                LeafNode(Format02d(l.cnt + 1), node)),
                cnt |-> l.cnt + 1, err |-> "ok"]
          ELSE [heap |-> l.heap, cnt |-> l.cnt, err |-> "ok"]

RECURSIVE make_split(_, _, _, _)
\* _make_split giving every decision node a new right leaf, taken or not
make_split_right_anew(h, cnt, node, depth) ==
    IF depth > RecursionLimit
    THEN [heap |-> h, cnt |-> cnt, err |-> "RecursionError"]
    ELSE IF ~IsDecision(h, node)
    THEN [heap |-> h, cnt |-> cnt, err |-> "ok"]
    ELSE
      LET l == IF h[node].left_child = None
               THEN [heap |-> Append([h EXCEPT ![node].left_child = Len(h) + 1],
                                     LeafNode(Format02d(cnt + 1), node)),
                     cnt |-> cnt + 1, err |-> "ok"]
               ELSE make_split(h, cnt, h[node].left_child, depth + 1)
      IN  IF l.err # "ok" THEN l
          ELSE [heap |-> Append([l.heap EXCEPT ![node].right_child = Len(l.heap) + 1],
                                LeafNode(Format02d(l.cnt + 1), node)),
                cnt |-> l.cnt + 1, err |-> "ok"]

\* SplittingState._make_split: [heap, cnt, err].  `cnt` is
\* self.new_leaf_count, `depth` the number of _make_split frames.
make_split(h, cnt, node, depth) ==
    IF depth > RecursionLimit
    THEN [heap |-> h, cnt |-> cnt, err |-> "RecursionError"]
    ELSE IF ~IsDecision(h, node)
    THEN [heap |-> h, cnt |-> cnt, err |-> "ok"]
    ELSE
      LET l == IF h[node].left_child = None
               THEN [heap |-> Append([h EXCEPT ![node].left_child = Len(h) + 1],
                                     LeafNode(Format02d(cnt + 1), node)),
                     cnt |-> cnt + 1, err |-> "ok"]
               ELSE make_split(h, cnt, h[node].left_child, depth + 1)
      IN  IF l.err # "ok" THEN l
          ELSE IF l.heap[node].right_child = None
          THEN [heap |-> Append([l.heap EXCEPT ![node].right_child = Len(l.heap) + 1],
                                LeafNode(Format02d(l.cnt + 1), node)),
                cnt |-> l.cnt + 1, err |-> "ok"]
          ELSE make_split(l.heap, l.cnt, l.heap[node].right_child, depth + 1)

\* handle of the splitting stage without the seeding of an absent root
handle_unseeded(h, b, tr) ==
    IF b.state.name = "SplittingState"
    THEN LET r == make_split(h, b.state.new_leaf_count, b.root, 1)
         IN  [heap |-> r.heap,
              builder |-> [root |-> b.root,
                           state |-> [b.state EXCEPT !.new_leaf_count = r.cnt]],
              trace |-> Append(tr, <<"handle", b.state.name>>),
              err |-> r.err]
    ELSE [heap |-> h, builder |-> b,
          trace |-> Append(tr, <<"handle", b.state.name>>), err |-> "ok"]

\* handle whose pruning stage cuts the whole tree off the builder
handle_pruning_drops_root(h, b, tr) ==
    IF b.state.name = "SplittingState"
    THEN LET h1 == IF b.root = None THEN Append(h, DecisionNode(None, None, None))
                   ELSE h
             root == IF b.root = None THEN Len(h) + 1 ELSE b.root
             r == make_split(h1, b.state.new_leaf_count, root, 1)
         IN  [heap |-> r.heap,
              builder |-> [root |-> root,
                           state |-> [b.state EXCEPT !.new_leaf_count = r.cnt]],
              trace |-> Append(tr, <<"handle", b.state.name>>),
              err |-> r.err]
    ELSE [heap |-> h,
          builder |-> IF b.state.name = "PruningState"
                      THEN [b EXCEPT !.root = None] ELSE b,
          trace |-> Append(tr, <<"handle", b.state.name>>), err |-> "ok"]

\* handle of the splitting stage seeding an absent root with a leaf
handle_leaf_seed(h, b, tr) ==
    IF b.state.name = "SplittingState"
    THEN LET h1 == IF b.root = None THEN Append(h, LeafNode(<<>>, None))
                   ELSE h
             root == IF b.root = None THEN Len(h) + 1 ELSE b.root
             r == make_split(h1, b.state.new_leaf_count, root, 1)
         IN  [heap |-> r.heap,
              builder |-> [root |-> root,
                           state |-> [b.state EXCEPT !.new_leaf_count = r.cnt]],
              trace |-> Append(tr, <<"handle", b.state.name>>),
              err |-> r.err]
    ELSE [heap |-> h, builder |-> b,
          trace |-> Append(tr, <<"handle", b.state.name>>), err |-> "ok"]

\* State.handle of the three states: [heap, builder, trace, err]
handle(h, b, tr) ==
    IF b.state.name = "SplittingState"
    THEN LET h1 == IF b.root = None THEN Append(h, DecisionNode(None, None, None))
                   ELSE h
             root == IF b.root = None THEN Len(h) + 1 ELSE b.root
             r == make_split(h1, b.state.new_leaf_count, root, 1)
         IN  [heap |-> r.heap,
              builder |-> [root |-> root,
                           state |-> [b.state EXCEPT !.new_leaf_count = r.cnt]],
              trace |-> Append(tr, <<"handle", b.state.name>>),
              err |-> r.err]
    ELSE [heap |-> h, builder |-> b,
          trace |-> Append(tr, <<"handle", b.state.name>>), err |-> "ok"]

\* TreeBuilder.set_state
set_state(h, b, tr, state) ==
    [heap |-> h, builder |-> [b EXCEPT !.state = state],
     trace |-> Append(tr, <<"set_state", state.name>>), err |-> "ok"]

\* run_step delegating to the state twice
run_step_twice(h, b, tr) ==
    IF b.state.name # "None"
    THEN LET w == handle(h, b, tr)
         IN  IF w.err # "ok" THEN w ELSE handle(w.heap, w.builder, w.trace)
    ELSE [heap |-> h, builder |-> b, trace |-> Append(tr, <<"no_state">>),
          err |-> "ok"]

\* TreeBuilder.run_step
run_step(h, b, tr) ==
    IF b.state.name # "None" THEN handle(h, b, tr)
    ELSE [heap |-> h, builder |-> b, trace |-> Append(tr, <<"no_state">>),
          err |-> "ok"]

\* statement sequencing: an exception ends the enclosing call
Then(w, f(_)) == IF w.err # "ok" THEN w ELSE f(w)

\* build_tree that clears the state once Pruning has run
build_tree_then_idle(h, b) ==
    LET s1(w) == set_state(w.heap, w.builder, w.trace, SplittingState)
        r1(w) == run_step(w.heap, w.builder, w.trace)
        s2(w) == set_state(w.heap, w.builder, w.trace, StoppingState)
        s3(w) == set_state(w.heap, w.builder, w.trace, PruningState)
        s4(w) == [w EXCEPT !.builder.state = NoState]
        w0 == [heap |-> h, builder |-> b, trace |-> <<>>, err |-> "ok"]
    IN  Then(Then(Then(Then(Then(Then(s1(w0), r1), s2), r1), s3), r1), s4)

\* TreeBuilder.build_tree
build_tree(h, b) ==
    LET s1(w) == set_state(w.heap, w.builder, w.trace, SplittingState)
        r1(w) == run_step(w.heap, w.builder, w.trace)
        s2(w) == set_state(w.heap, w.builder, w.trace, StoppingState)
        s3(w) == set_state(w.heap, w.builder, w.trace, PruningState)
        w0 == [heap |-> h, builder |-> b, trace |-> <<>>, err |-> "ok"]
    IN  Then(Then(Then(Then(Then(s1(w0), r1), s2), r1), s3), r1)

\* ---------------------------------------------------------------- iterator
NoIterator == [live |-> FALSE, root |-> None, stack |-> <<>>]

\* __init__ with self.stack = [root], whatever the root
Iterator_init_always_pushes(h, old, root) ==
    IF root # None /\ ~IsNode(h, root) THEN [it |-> old, err |-> RootNotNode]
    ELSE [it |-> [live |-> TRUE, root |-> root, stack |-> <<root>>], err |-> "ok"]

\* Iterator.__init__: [it, err]; a failed construction binds no iterator
Iterator_init(h, old, root) ==
    IF root # None /\ ~IsNode(h, root) THEN [it |-> old, err |-> RootNotNode]
    ELSE [it |-> [live |-> TRUE, root |-> root,
                  stack |-> IF root # None THEN <<root>> ELSE <<>>],
          err |-> "ok"]

\* __next__ pushing the left child before the right one
PreOrderIterator_next_swapped(h, i) ==
    IF i.stack = <<>> THEN [it |-> i, node |-> None, err |-> "StopIteration"]
    ELSE LET current_node == i.stack[Len(i.stack)]
             s0 == SubSeq(i.stack, 1, Len(i.stack) - 1)
             s1 == IF IsDecision(h, current_node) /\ h[current_node].left_child # None
                   THEN Append(s0, h[current_node].left_child) ELSE s0
             s2 == IF IsDecision(h, current_node) /\ h[current_node].right_child # None
                   THEN Append(s1, h[current_node].right_child) ELSE s1
         IN  [it |-> [i EXCEPT !.stack = s2], node |-> current_node, err |-> "ok"]

\* __next__ putting the root back on the stack when it signals the end
PreOrderIterator_next_restarting(h, i) ==
    IF i.stack = <<>>
    THEN [it |-> [i EXCEPT !.stack = IF i.root # None THEN <<i.root>> ELSE <<>>],
          node |-> None, err |-> "StopIteration"]
    ELSE LET current_node == i.stack[Len(i.stack)]
             s0 == SubSeq(i.stack, 1, Len(i.stack) - 1)
             s1 == IF IsDecision(h, current_node) /\ h[current_node].right_child # None
                   THEN Append(s0, h[current_node].right_child) ELSE s0
             s2 == IF IsDecision(h, current_node) /\ h[current_node].left_child # None
                   THEN Append(s1, h[current_node].left_child) ELSE s1
         IN  [it |-> [i EXCEPT !.stack = s2], node |-> current_node, err |-> "ok"]

\* PreOrderIterator.__next__: [it, node, err]
PreOrderIterator_next(h, i) ==
    IF i.stack = <<>> THEN [it |-> i, node |-> None, err |-> "StopIteration"]
    ELSE LET current_node == i.stack[Len(i.stack)]
             s0 == SubSeq(i.stack, 1, Len(i.stack) - 1)
             s1 == IF IsDecision(h, current_node) /\ h[current_node].right_child # None
                   THEN Append(s0, h[current_node].right_child) ELSE s0
             s2 == IF IsDecision(h, current_node) /\ h[current_node].left_child # None
                   THEN Append(s1, h[current_node].left_child) ELSE s1
         IN  [it |-> [i EXCEPT !.stack = s2], node |-> current_node, err |-> "ok"]

\* accept counting every node, not only the leaves
accept_every_node(h, node, visitor) == [visitor EXCEPT !.leaf_count = @ + 1]

\* Node.accept with a CountLeavesVisitor: visit_leaf_node / visit_decision_node
accept(h, node, visitor) ==
    IF h[node].type = "LeafNode"
    THEN [visitor EXCEPT !.leaf_count = @ + 1]
    ELSE visitor

\* CountLeavesVisitor.__init__
CountLeavesVisitor == [leaf_count |-> 0]

\* ---------------------------------------------------------------- actions
Init ==
    /\ heap = <<>>
    /\ builder = [root |-> None, state |-> NoState]
    /\ trace = <<>>
    /\ it = NoIterator
    /\ yielded = <<>>
    /\ pending = None
    /\ leaf_visitor = CountLeavesVisitor
    /\ err = "ok"
    /\ aliases = 0

IterVars == <<it, yielded, pending, leaf_visitor>>

\* the tree-breaking attachments among the slots a constructor call fills
NewAliases(l, r) ==
    (IF l # None /\ Attached(heap, l) THEN 1 ELSE 0)
    + (IF r # None /\ (Attached(heap, r) \/ r = l) THEN 1 ELSE 0)

\* The caller goes on after an exception only once it has caught it, and the
\* tree is not changed while the demo's traversal is in progress.
Idle == err = "ok" /\ ~it.live

\* User values for hand-made leaves.
UserValues == {<<"X">>}

\* d = DecisionNode(left_child=l, right_child=r)
NewDecisionNode(l, r) ==
    /\ Idle
    /\ 2 * (Len(heap) + 1) + aliases + NewAliases(l, r) <= MaxUserSize
    /\ heap' = Append(heap, DecisionNode(None, l, r))
    /\ trace' = <<>>
    /\ err' = "ok"
    /\ aliases' = aliases + NewAliases(l, r)
    /\ UNCHANGED <<builder, IterVars>>

\* n = LeafNode(v)
NewLeafNode(v) ==
    /\ Idle
    /\ 2 * (Len(heap) + 1) + aliases <= MaxUserSize
    /\ heap' = Append(heap, LeafNode(v, None))
    /\ trace' = <<>>
    /\ err' = "ok"
    /\ UNCHANGED <<builder, IterVars, aliases>>

AddChild(d, c) ==
    /\ Idle
    /\ IsDecision(heap, d)
    /\ LET r == add_child(heap, d, c)
           a == IF r.err = "ok" /\ Aliasing(heap, d, c) THEN 1 ELSE 0
       IN  /\ a = 1 => 2 * Len(heap) + aliases + a <= MaxUserSize
           /\ heap' = r.heap
           /\ err' = r.err
           /\ aliases' = aliases + a
    /\ trace' = <<>>
    /\ UNCHANGED <<builder, IterVars>>

AddLeftChild(d, c) ==
    /\ Idle
    /\ IsDecision(heap, d)
    /\ LET r == add_left_child(heap, d, c)
           a == IF r.err = "ok" /\ Aliasing(heap, d, c) THEN 1 ELSE 0
       IN  /\ a = 1 => 2 * Len(heap) + aliases + a <= MaxUserSize
           /\ heap' = r.heap
           /\ err' = r.err
           /\ aliases' = aliases + a
    /\ trace' = <<>>
    /\ UNCHANGED <<builder, IterVars>>

AddRightChild(d, c) ==
    /\ Idle
    /\ IsDecision(heap, d)
    /\ LET r == add_right_child(heap, d, c)
           a == IF r.err = "ok" /\ Aliasing(heap, d, c) THEN 1 ELSE 0
       IN  /\ a = 1 => 2 * Len(heap) + aliases + a <= MaxUserSize
           /\ heap' = r.heap
           /\ err' = r.err
           /\ aliases' = aliases + a
    /\ trace' = <<>>
    /\ UNCHANGED <<builder, IterVars>>

\* builder.root = n (the attribute is public; the builder has no setter)
SetRoot(n) ==
    /\ Idle
    /\ builder.root # n
    /\ builder' = [builder EXCEPT !.root = n]
    /\ trace' = <<>>
    /\ err' = "ok"
    /\ UNCHANGED <<heap, IterVars, aliases>>

\* builder.set_state(s), s a new state object or None
SetState(s) ==
    /\ Idle
    /\ builder' = set_state(heap, builder, <<>>, s).builder
    /\ trace' = <<>>
    /\ err' = "ok"
    /\ UNCHANGED <<heap, IterVars, aliases>>

\* builder.run_step()
RunStep ==
    /\ Idle
    /\ LET w == run_step(heap, builder, <<>>)
       IN  /\ Len(w.heap) <= MaxNodes
           /\ heap' = w.heap
           /\ builder' = w.builder
           /\ trace' = w.trace
           /\ err' = w.err
    /\ UNCHANGED <<IterVars, aliases>>

\* builder.build_tree()
BuildTree ==
    /\ Idle
    /\ LET w == build_tree(heap, builder)
       IN  /\ Len(w.heap) <= MaxNodes
           /\ heap' = w.heap
           /\ builder' = w.builder
           /\ trace' = w.trace
           /\ err' = w.err
    /\ UNCHANGED <<IterVars, aliases>>

\* it = PreOrderIterator(root); leaf_visitor = CountLeavesVisitor()
NewIterator(root) ==
    /\ Idle
    /\ LET r == Iterator_init(heap, it, root)
       IN  /\ it' = r.it
           /\ err' = r.err
    /\ yielded' = <<>>
    /\ pending' = None
    /\ leaf_visitor' = CountLeavesVisitor
    /\ trace' = <<>>
    /\ UNCHANGED <<heap, builder, aliases>>

\* node = next(it)
IterNext ==
    /\ it.live
    /\ err = "ok"
    /\ pending = None
    /\ Len(yielded) < MaxYield
    /\ LET r == PreOrderIterator_next(heap, it)
       IN  /\ it' = r.it
           /\ pending' = r.node
           /\ yielded' = IF r.err = "ok" THEN Append(yielded, r.node) ELSE yielded
           /\ err' = r.err
    /\ UNCHANGED <<heap, builder, trace, leaf_visitor, aliases>>

\* node.accept(leaf_visitor)
Accept ==
    /\ it.live
    /\ pending # None
    /\ leaf_visitor' = accept(heap, pending, leaf_visitor)
    /\ pending' = None
    /\ err' = "ok"
    /\ UNCHANGED <<heap, builder, trace, it, yielded, aliases>>

\* the traversal is over and the iterator is dropped
DropIterator ==
    /\ it.live
    /\ err = "ok"
    /\ pending = None
    /\ it' = NoIterator
    /\ yielded' = <<>>
    /\ leaf_visitor' = CountLeavesVisitor
    /\ err' = "ok"
    /\ UNCHANGED <<heap, builder, trace, pending, aliases>>

\* try: ... except: the caller catches the exception of the last call
Catch ==
    /\ err # "ok"
    /\ err' = "ok"
    /\ trace' = <<>>
    /\ UNCHANGED <<heap, builder, IterVars, aliases>>

NodeArgs == 1..Len(heap)

\* the nodes that occupy no slot: the roots of what has been built
Roots == {x \in NodeArgs : ~Attached(heap, x)}

\* building nodes by hand, any argument in any slot, and constructing an
\* iterator from something that is not a node
Construct ==
    \/ NewIterator(NonNode)
    \/ \E l, r \in NodeArgs \cup {None} : NewDecisionNode(l, r)
    \/ \E v \in UserValues : NewLeafNode(v)
    \/ \E d \in NodeArgs, c \in NodeArgs \cup {NonNode} : AddChild(d, c)
    \/ \E d \in NodeArgs, c \in NodeArgs \cup {NonNode} : AddLeftChild(d, c)
    \/ \E d \in NodeArgs, c \in NodeArgs \cup {NonNode} : AddRightChild(d, c)
    \/ Catch

SpecAttach == Init /\ [][Construct]_vars

\* building nodes the way the builder's callers do: a node is constructed
\* empty and then attached
Build ==
    \/ NewDecisionNode(None, None)
    \/ \E v \in UserValues : NewLeafNode(v)
    \/ \E d \in NodeArgs, c \in NodeArgs : AddChild(d, c)
    \/ \E d \in NodeArgs, c \in NodeArgs : AddLeftChild(d, c)
    \/ \E d \in NodeArgs, c \in NodeArgs : AddRightChild(d, c)
    \/ \E n \in Roots \cup {None} : SetRoot(n)
    \/ Catch

\* the builder's state machine
Next ==
    \/ Build
    \/ \E s \in {NoState, SplittingState, StoppingState, PruningState} : SetState(s)
    \/ RunStep
    \/ BuildTree

Spec == Init /\ [][Next]_vars

\* the demo: build, then traverse and visit
NextDemo ==
    \/ Build
    \/ BuildTree
    \/ \E r \in {builder.root, NonNode} : NewIterator(r)
    \/ IterNext
    \/ Accept
    \/ DropIterator

SpecDemo == Init /\ [][NextDemo]_vars

\* ================================================================ claims
\* the structure below `r` is a tree: every node is reached along one path
IsTree(h, r) ==
    \/ r = None
    \/ /\ IsNode(h, r)
       /\ LET R == Reach(h, r)
              In(x) == {d \in R : h[d].left_child = x}
                       \cup {-d : d \in {e \in R : h[e].right_child = x}}
          IN  /\ In(r) = {}
              /\ \A x \in R : Cardinality(In(x)) <= 1

\* every decision node below `r` has both children
Full(h, r) ==
    \A d \in Reach(h, r) :
        IsDecision(h, d) => h[d].left_child # None /\ h[d].right_child # None

RECURSIVE PreOrder(_, _)
\* pre-order by definition: the node, its left subtree, its right subtree
PreOrder(h, r) ==
    IF r = None THEN <<>>
    ELSE <<r>> \o PreOrder(h, h[r].left_child) \o PreOrder(h, h[r].right_child)

IsPrefix(s, t) == Len(s) <= Len(t) /\ s = SubSeq(t, 1, Len(s))

\* what a build_tree call that returns has logged
BuildTrace ==
    << <<"set_state", "SplittingState">>, <<"handle", "SplittingState">>,
       <<"set_state", "StoppingState">>, <<"handle", "StoppingState">>,
       <<"set_state", "PruningState">>, <<"handle", "PruningState">> >>

\* The step is a call of build_tree / of run_step.  Only these two leave a
\* non-empty trace, of at least two entries for build_tree and of one for
\* run_step, so the first conjunct follows from the second.
BuildTreeCall == Len(trace') >= 2 /\ BuildTree

RunStepCall == Len(trace') = 1 /\ RunStep

\* C1: build_tree on a builder whose root is absent or a tree returns, and
\* then every decision node reachable from the root has both children.
C1_FullAfterBuild ==
    [][(BuildTreeCall /\ IsTree(heap, builder.root))
        => (err' = "ok" /\ builder'.root # None /\ Full(heap', builder'.root))]_vars

\* build_tree has completed a two-level tree that lacked three children
C1_Witness ==
    /\ trace = BuildTrace /\ err = "ok"
    /\ IsTree(heap, builder.root) /\ Full(heap, builder.root)
    /\ \E d \in Reach(heap, builder.root) : d # builder.root /\ IsDecision(heap, d)
    /\ \E x \in Reach(heap, builder.root) : heap[x].value = Format02d(3)

\* C2: over a tree, the nodes returned by __next__ so far are a prefix of
\* the pre-order of the tree, and all of it once the stack is empty.
C2_PreOrder ==
    (it.live /\ IsTree(heap, it.root)) =>
        /\ IsPrefix(yielded, PreOrder(heap, it.root))
        /\ (it.stack = <<>> => yielded = PreOrder(heap, it.root))

\* a finished traversal of a five-node tree whose left subtree has children
C2_Witness ==
    /\ it.live /\ it.stack = <<>> /\ err = "StopIteration"
    /\ IsTree(heap, it.root) /\ Len(yielded) = 5
    /\ yielded[2] = heap[it.root].left_child /\ IsDecision(heap, yielded[2])
    /\ yielded[5] = heap[it.root].right_child

\* the leaves below `r`
Leaves(h, r) == {x \in Reach(h, r) : IsLeaf(h, x)}

RECURSIVE VisitAll(_, _, _)
\* node.accept(visitor) for the nodes of `s` in order
VisitAll(h, s, visitor) ==
    IF s = <<>> THEN visitor
    ELSE VisitAll(h, Tail(s), accept(h, Head(s), visitor))

\* C3: after every node of a complete traversal of a tree has been passed
\* to accept, leaf_count is the number of leaves of the tree, and visiting
\* the same nodes in any other order gives the same count.
C3_LeafCount ==
    (it.live /\ IsTree(heap, it.root) /\ it.stack = <<>> /\ pending = None) =>
        /\ leaf_visitor.leaf_count = Cardinality(Leaves(heap, it.root))
        /\ \A p \in Permutations(1..Len(yielded)) :
               VisitAll(heap, [k \in 1..Len(yielded) |-> yielded[p[k]]],
                        CountLeavesVisitor) = leaf_visitor

\* a finished traversal with visits over a tree of three leaves
C3_Witness ==
    /\ it.live /\ it.stack = <<>> /\ pending = None /\ err = "StopIteration"
    /\ IsTree(heap, it.root) /\ Len(yielded) = 5
    /\ leaf_visitor.leaf_count = 3

\* C4: every call of build_tree sets and handles Splitting, then Stopping,
\* then Pruning, each exactly once and in this order.
C4_ThreeStagesInOrder == [][BuildTreeCall => trace' = BuildTrace]_vars

\* C5 as stated: after a build_tree that returned, no state is assigned.
C5_IdleAfterBuild == (trace = BuildTrace /\ err = "ok") => builder.state = NoState

\* C5, amended: a build_tree that returns leaves the PruningState it set
\* last assigned, and a run_step issued right after it handles Pruning once
\* more and changes nothing.
C5_PruningAfterBuild ==
    [][/\ (BuildTreeCall /\ err' = "ok") => builder'.state = PruningState
       /\ (trace = BuildTrace /\ err = "ok" /\ RunStepCall) =>
             /\ trace' = << <<"handle", "PruningState">> >>
             /\ err' = "ok"
             /\ heap' = heap /\ builder' = builder]_vars

\* run_step right after build_tree has handled Pruning
C5_Witness ==
    /\ trace = << <<"handle", "PruningState">> >> /\ err = "ok"
    /\ builder.state = PruningState
    /\ builder.root # None /\ Full(heap, builder.root)

\* one run of the splitting stage: run_step in SplittingState, or build_tree
SplitRun == (builder.state.name = "SplittingState" /\ RunStepCall) \/ BuildTreeCall

\* the leaves a step has created, in creation order
NewLeaves == SelectSeq([k \in 1..(Len(heap') - Len(heap)) |-> Len(heap) + k],
                       LAMBDA x : heap'[x].type = "LeafNode")

Digit(c) == CHOOSE d \in 0..9 : DigitChar(d) = c

RECURSIVE ToInt(_)
\* the number a sequence of digits reads as
ToInt(s) == IF s = <<>> THEN 0 ELSE 10 * ToInt(SubSeq(s, 1, Len(s) - 1)) + Digit(s[Len(s)])

\* labels are checked up to this number
MaxLabel == 120

\* C6 as stated: in every run of the splitting stage the k-th leaf created
\* is labelled with k, zero-padded to two digits.
C6_KthLeafOfRun ==
    [][SplitRun => \A k \in 1..Len(NewLeaves) :
                       heap'[NewLeaves[k]].value = Format02d(k)]_vars

\* the counter a run of the splitting stage starts from
StartCount == IF BuildTreeCall THEN 0 ELSE builder.state.new_leaf_count

\* C6, amended: the k-th leaf created by a SplittingState instance since
\* its construction is labelled with k zero-padded to at least two digits;
\* so the labels of one run are distinct and increasing, and start at "01"
\* when the instance has created no leaf before (always so in build_tree).
C6_KthLeafOfInstance ==
    [][SplitRun =>
        /\ \A k \in 1..Len(NewLeaves) :
              heap'[NewLeaves[k]].value = Format02d(StartCount + k)
        /\ \A j, k \in 1..Len(NewLeaves) :
              j < k => ToInt(heap'[NewLeaves[j]].value) < ToInt(heap'[NewLeaves[k]].value)
        /\ (builder.state.name = "SplittingState" /\ RunStepCall) =>
              builder'.state.new_leaf_count = StartCount + Len(NewLeaves)
        \* the label of every k, whatever the run (evaluated at the first one)
        /\ heap = <<>> =>
              \A n \in 1..MaxLabel :
                 Len(Format02d(n)) >= 2 /\ ToInt(Format02d(n)) = n]_vars

\* a SplittingState instance has run twice and labelled a leaf "03"
C6_Witness ==
    /\ trace = << <<"handle", "SplittingState">> >> /\ err = "ok"
    /\ builder.state.new_leaf_count = 3
    /\ heap[Len(heap)].value = Format02d(3)
    /\ \E x \in 1..Len(heap) : x \notin Reach(heap, builder.root)
                                /\ heap[x].value = Format02d(1)

\* C7: add_child on a decision node whose two slots are taken fails with
\* "Both child nodes are already set." and changes no object: the slots of
\* the node and the parent of the argument are as before.
C7_ThirdChildRejected ==
    [][\A d \in NodeArgs, c \in NodeArgs \cup {NonNode} :
         (AddChild(d, c) /\ heap[d].left_child # None /\ heap[d].right_child # None)
            => /\ err' = BothSet
               /\ heap'[d].left_child = heap[d].left_child
               /\ heap'[d].right_child = heap[d].right_child
               /\ IsNode(heap, c) => heap'[c].parent = heap[c].parent
               /\ heap' = heap]_vars

\* add_child has just been refused by a node with two children
C7_Witness ==
    /\ err = BothSet
    /\ \E d \in NodeArgs : IsDecision(heap, d) /\ heap[d].left_child # None
                           /\ heap[d].right_child # None

\* C8: a child slot that holds a node holds the same node after every
\* operation, and no object goes away.
C8_SlotsKeep ==
    [][/\ Len(heap') >= Len(heap)
       /\ \A d \in NodeArgs :
            /\ heap[d].left_child # None => heap'[d].left_child = heap[d].left_child
            /\ heap[d].right_child # None => heap'[d].right_child = heap[d].right_child]_vars

\* an attachment to a taken slot has been refused on a node the splitting
\* stage had completed
C8_Witness ==
    /\ err \in {LeftSet, RightSet}
    /\ \E d \in NodeArgs :
          /\ IsDecision(heap, d) /\ heap[d].left_child # None
          /\ heap[d].right_child # None
          /\ heap[heap[d].right_child].value = Format02d(1)

\* C9: PreOrderIterator(None) is constructed without error, and its first
\* __next__ raises StopIteration, which is none of the other errors, having
\* returned no node.
C9_EmptyTraversal ==
    [][/\ NewIterator(None) =>
            err' = "ok" /\ it'.live /\ it'.root = None /\ yielded' = <<>>
       /\ (IterNext /\ it.root = None) =>
            /\ err' = "StopIteration" /\ yielded' = <<>> /\ pending' = None
            /\ err' \notin {BothSet, LeftSet, RightSet, ChildNotNode, RootNotNode,
                             "RecursionError"}]_vars

\* the iterator over an absent root has signalled the end
C9_Witness ==
    it.live /\ it.root = None /\ err = "StopIteration" /\ yielded = <<>>

RECURSIVE Drain(_, _, _)
\* list(it): __next__ until it raises StopIteration
Drain(h, i, out) ==
    LET r == PreOrderIterator_next(h, i)
    IN  IF r.err # "ok" \/ Len(out) >= MaxYield THEN out
        ELSE Drain(h, r.it, Append(out, r.node))

\* list(PreOrderIterator(root))
Traversal(h, root) == Drain(h, Iterator_init(h, NoIterator, root).it, <<>>)

\* root = Decision, left = Decision without children, right = Leaf("X"),
\* and a new SplittingState assigned
Scenario ==
    /\ builder.state = SplittingState
    /\ IsDecision(heap, builder.root)
    /\ LET l == heap[builder.root].left_child
           x == heap[builder.root].right_child
       IN  /\ IsDecision(heap, l) /\ heap[l].left_child = None
           /\ heap[l].right_child = None
           /\ IsLeaf(heap, x) /\ heap[x].value = <<"X">>

\* C10: a run of the splitting stage changes no existing object except to
\* fill empty slots of decision nodes, keeps the root if there is one, and
\* when it returns every decision node below the root is complete; in the
\* scenario it gives the left node the leaves "01" and "02" and the
\* traversal is root, left, "01", "02", "X".
C10_SplitFillsOnly ==
    [][/\ SplitRun =>
            /\ \A x \in NodeArgs :
                  /\ heap'[x].type = heap[x].type
                  /\ heap'[x].value = heap[x].value
                  /\ heap'[x].parent = heap[x].parent
                  /\ heap[x].left_child # None => heap'[x].left_child = heap[x].left_child
                  /\ heap[x].right_child # None => heap'[x].right_child = heap[x].right_child
                  /\ IsLeaf(heap, x) => heap'[x] = heap[x]
                  /\ heap'[x].left_child \in {heap[x].left_child} \cup (Len(heap)+1..Len(heap'))
                  /\ heap'[x].right_child \in {heap[x].right_child} \cup (Len(heap)+1..Len(heap'))
            /\ builder.root # None => builder'.root = builder.root
            /\ err' = "ok" => Full(heap', builder'.root)
       /\ (RunStepCall /\ Scenario) =>
            LET r == builder.root
                l == heap[r].left_child
                x == heap[r].right_child
                a == Len(heap) + 1
                b == Len(heap) + 2
            IN  /\ err' = "ok" /\ Len(heap') = b
                /\ heap'[l].left_child = a /\ heap'[l].right_child = b
                /\ heap'[a] = LeafNode(Format02d(1), l)
                /\ heap'[b] = LeafNode(Format02d(2), l)
                /\ Format02d(1) = <<"0", "1">> /\ Format02d(2) = <<"0", "2">>
                /\ heap'[x] = heap[x] /\ heap'[r] = heap[r]
                /\ Traversal(heap', r) = <<r, l, a, b, x>>]_vars

\* the scenario after the splitting stage
C10_Witness ==
    /\ trace = << <<"handle", "SplittingState">> >> /\ err = "ok"
    /\ \E r, l, x \in NodeArgs :
          /\ builder.root = r /\ heap[r].left_child = l /\ heap[r].right_child = x
          /\ IsDecision(heap, l) /\ IsLeaf(heap, x) /\ heap[x].value = <<"X">>
          /\ Len(heap) = 5
          /\ heap[l].left_child = 4 /\ heap[4].value = <<"0", "1">>
          /\ heap[l].right_child = 5 /\ heap[5].value = <<"0", "2">>
          /\ Traversal(heap, r) = <<r, l, 4, 5, x>>

\* a builder as TreeBuilder() makes it
NewBuilder == [root |-> None, state |-> NoState]

\* C11: build_tree on a new builder returns with a new DecisionNode as root
\* whose children are new leaves labelled "01" (left) and "02" (right); the
\* traversal of that root is root, "01", "02", and a CountLeavesVisitor that
\* has visited these nodes holds leaf_count = 2.
C11_EmptyBuilderScenario ==
    [][(BuildTreeCall /\ builder = NewBuilder) =>
         LET r == Len(heap) + 1
             a == Len(heap) + 2
             b == Len(heap) + 3
         IN  /\ err' = "ok" /\ builder'.root = r /\ Len(heap') = b
             /\ heap'[r] = DecisionNode(None, a, b)
             /\ heap'[a] = LeafNode(<<"0", "1">>, r)
             /\ heap'[b] = LeafNode(<<"0", "2">>, r)
             /\ SubSeq(heap', 1, Len(heap)) = heap
             /\ Traversal(heap', r) = <<r, a, b>>
             /\ VisitAll(heap', Traversal(heap', r), CountLeavesVisitor).leaf_count = 2]_vars

\* the demo has run to its end on a new builder: built, traversed, visited
C11_Witness ==
    /\ Len(heap) = 3 /\ builder = [root |-> 1, state |-> PruningState]
    /\ heap[1] = DecisionNode(None, 2, 3)
    /\ heap[2].value = <<"0", "1">> /\ heap[3].value = <<"0", "2">>
    /\ it.live /\ it.root = 1 /\ it.stack = <<>> /\ err = "StopIteration"
    /\ yielded = <<1, 2, 3>> /\ pending = None
    /\ leaf_visitor.leaf_count = 2

\* the child slots that hold `x`: d for a left slot, -d for a right slot
SlotsOf(h, x) ==
    {d \in 1..Len(h) : h[d].left_child = x}
    \cup {-d : d \in {e \in 1..Len(h) : h[e].right_child = x}}

\* C12: in every state no node occupies more than one child slot, and no
\* node is attached below itself.
C12_NeverShared ==
    \A x \in NodeArgs :
        /\ Cardinality(SlotsOf(heap, x)) <= 1
        /\ \A c \in Children(heap, x) : x \notin Reach(heap, c)

\* C13: the splitting stage returns, and a PreOrderIterator has returned no
\* more nodes than its root reaches.
C13_BoundedByNodes ==
    [][/\ BuildTreeCall => err' = "ok"
       /\ IterNext => Len(yielded') <= Cardinality(Reach(heap, it.root))]_vars

\* C14 as stated: an attachment with a non-node argument fails with the
\* ValueError whatever the slots hold and changes nothing, and so does the
\* construction of an iterator on a non-node root.
C14_NonNodeAlwaysValueError ==
    [][/\ \A d \in NodeArgs :
            (AddChild(d, NonNode) \/ AddLeftChild(d, NonNode)
                \/ AddRightChild(d, NonNode))
              => (err' = ChildNotNode /\ heap' = heap)
       /\ NewIterator(NonNode) => (err' = RootNotNode /\ it' = it)]_vars

\* C14, amended: add_left_child and add_right_child with a non-node
\* argument fail with the ValueError whatever the slots hold; add_child with
\* a non-node argument fails with it while a slot is free and with "Both
\* child nodes are already set." once both are taken; the construction of
\* an iterator on a non-node root fails with the ValueError; none of these
\* calls changes an object.
C14_NonNodeRejected ==
    [][/\ \A d \in NodeArgs :
            /\ (AddLeftChild(d, NonNode) \/ AddRightChild(d, NonNode))
                  => (err' = ChildNotNode /\ heap' = heap)
            /\ AddChild(d, NonNode) =>
                  /\ heap' = heap
                  /\ err' = IF heap[d].left_child # None /\ heap[d].right_child # None
                            THEN BothSet ELSE ChildNotNode
       /\ NewIterator(NonNode) => (err' = RootNotNode /\ it' = it /\ heap' = heap)]_vars

\* a non-node has been refused with the ValueError by an attachment when
\* every decision node had both slots taken
C14_Witness ==
    /\ err = ChildNotNode
    /\ \E d \in NodeArgs : IsDecision(heap, d)
    /\ \A d \in NodeArgs : IsDecision(heap, d) =>
           heap[d].left_child # None /\ heap[d].right_child # None

\* C15: run_step on a builder with no state returns and changes neither
\* the objects nor the builder; run_step on a builder with a state calls
\* handle of that state once, on this builder, and the same state stays
\* assigned.
C15_RunStepDelegates ==
    [][(trace' # <<>> /\ RunStep) =>
         IF builder.state = NoState
         THEN /\ err' = "ok" /\ heap' = heap /\ builder' = builder
              /\ trace' = << <<"no_state">> >>
         ELSE /\ trace' = << <<"handle", builder.state.name>> >>
              /\ builder'.state.name = builder.state.name
              /\ LET w == handle(heap, builder, <<>>)
                 IN  heap' = w.heap /\ builder' = w.builder /\ err' = w.err]_vars

\* run_step has found no state on a builder that has a root
C15_Witness ==
    /\ trace = << <<"no_state">> >> /\ err = "ok"
    /\ builder.state = NoState /\ builder.root # None

\* C16: handle of the Stopping or of the Pruning stage returns and leaves
\* every object and the builder as they were; so what build_tree leaves is
\* what its splitting stage has left.
C16_NoStructuralEffect ==
    [][/\ (RunStepCall /\ builder.state.name \in {"StoppingState", "PruningState"})
            => (err' = "ok" /\ heap' = heap /\ builder' = builder)
       /\ (BuildTreeCall /\ err' = "ok") =>
            LET w == run_step(heap, set_state(heap, builder, <<>>, SplittingState).builder,
                              <<>>)
            IN  heap' = w.heap /\ builder'.root = w.builder.root]_vars

\* the Stopping stage has been handled on a tree that is not complete
C16_Witness ==
    /\ trace = << <<"handle", "StoppingState">> >> /\ err = "ok"
    /\ builder.root # None /\ IsTree(heap, builder.root)
    /\ ~Full(heap, builder.root)

RootOk(h, b) == b.root = None \/ IsDecision(h, b.root)

\* the step is a call of set_state, run_step or build_tree
BuilderStep ==
    \/ \E s \in {NoState, SplittingState, StoppingState, PruningState} : SetState(s)
    \/ RunStepCall
    \/ BuildTreeCall

\* C17: a new builder has no root, and set_state, run_step and build_tree
\* keep the root absent or a DecisionNode: they never replace a root, and
\* an absent root stays absent except when the splitting stage is handled,
\* which makes it a new DecisionNode.
C17_RootAbsentOrDecision ==
    [][/\ heap = <<>> => builder.root = None
       /\ BuilderStep =>
            /\ RootOk(heap, builder) => RootOk(heap', builder')
            /\ builder.root # None => builder'.root = builder.root
            /\ builder.root = None =>
                  IF SplitRun
                  THEN /\ builder'.root = Len(heap) + 1
                       /\ IsDecision(heap', builder'.root)
                       /\ ~IsLeaf(heap', builder'.root)
                  ELSE builder'.root = None]_vars

\* the splitting stage has been handled for the first time, by run_step on
\* a new builder, and has made the root
C17_Witness ==
    /\ trace = << <<"handle", "SplittingState">> >> /\ err = "ok"
    /\ Len(heap) = 3 /\ builder.root = 1 /\ IsDecision(heap, 1)
    /\ builder.state.new_leaf_count = 2

\* the nodes of `s` as a set
Range(s) == {s[k] : k \in 1..Len(s)}

\* C18: when the iterator over a tree has emptied its stack it has returned
\* every node the root reaches, each once; from then on __next__ raises
\* StopIteration every time, returns no node and leaves the iterator empty;
\* a new PreOrderIterator starts again from its root with nothing returned.
C18_OneShot ==
    [][/\ (it'.live /\ IsTree(heap', it'.root) /\ it'.stack = <<>>) =>
            /\ Range(yielded') = Reach(heap', it'.root)
            /\ Len(yielded') = Cardinality(Reach(heap', it'.root))
       /\ (IterNext /\ it.stack = <<>>) =>
            /\ err' = "StopIteration" /\ pending' = None
            /\ yielded' = yielded /\ it' = it
       /\ \A r \in {builder.root} \ {None} :
            NewIterator(r) =>
              /\ it' = [live |-> TRUE, root |-> r, stack |-> <<r>>]
              /\ yielded' = <<>> /\ err' = "ok"]_vars

\* the end of a traversal of a tree of five nodes has been signalled, all
\* nodes returned and visited
C18_Witness ==
    /\ it.live /\ it.stack = <<>> /\ err = "StopIteration" /\ pending = None
    /\ IsTree(heap, it.root) /\ Cardinality(Reach(heap, it.root)) = 5
    /\ Range(yielded) = Reach(heap, it.root)

\* C19: in every structure without a shared node, a node held in a slot of
\* d has d as its parent, and a node held in no slot has no parent.
C19_ParentsAgree ==
    aliases = 0 =>
        \A c \in NodeArgs :
            /\ \A d \in NodeArgs : c \in Children(heap, d) => heap[c].parent = d
            /\ ~Attached(heap, c) => heap[c].parent = None

\* C20: a build_tree that follows a build_tree that returned returns too,
\* and leaves every object and the builder's root as they were: no new
\* node, the same slots, parents and values.
C20_SecondBuildChangesNothing ==
    [][(trace = BuildTrace /\ err = "ok" /\ BuildTreeCall) =>
         /\ err' = "ok" /\ heap' = heap /\ Len(heap') = Len(heap)
         /\ builder'.root = builder.root
         /\ trace' = BuildTrace]_vars

\* the state between two build_tree calls on a hand-made partial tree:
\* the first has completed it, the second finds nothing to do
C20_Witness ==
    /\ trace = BuildTrace /\ err = "ok" /\ aliases = 0
    /\ builder.root # None /\ Full(heap, builder.root)
    /\ LET w == build_tree(heap, builder)
       IN  w.heap = heap /\ w.builder.root = builder.root /\ w.err = "ok"
    /\ \E x \in Reach(heap, builder.root) : heap[x].value = <<"X">>
    /\ \E x \in Reach(heap, builder.root) : heap[x].value = Format02d(2)

====
